---- MODULE Spec2Model ----
(***************************************************************************)
(* Model of .github/actions/validate_params/validate_params.py: one run of *)
(* main() from the point where the registry and the schema are loaded      *)
(* (line 73) to process exit.                                              *)
(*                                                                         *)
(* A parameter is a record whose DOMAIN is the set of keys of the JSON     *)
(* object; "name" and "description" are always present, "id" and "access"  *)
(* may be absent. A JSON value stored under "id" is either an integer      *)
(* JInt(n) or JNull, a value int() rejects. The schema validator is an     *)
(* external library working on a schema the run is handed: its result is   *)
(* an input of the SchemaValidation step. The emitter flags are read for   *)
(* the first time by the emitters and are inputs of those steps.           *)
(***************************************************************************)
EXTENDS Integers, Sequences, FiniteSets, TLC

\* Largest number of parameters in the registry file.
MaxParams == 3

\* validate_params.py line 9
ID_UNASSIGNED == 255

VARIABLES
    args,               \* parsed flags read before the emitters
    data,               \* the in-memory registry (list of parameters)
    file,               \* content of the registry file on disk
    error_rows,         \* schema Violations
    custom_test_rows,   \* Custom Test Results, <<description, "PASS"|"FAIL">>
    cleaned_data,       \* parameters with a valid id after recovery
    ids,                \* ids handed to the Counter
    id_counts,          \* Counter(ids), possibly without the sentinel
    rewrite_data,       \* "needs persist"
    overall_pass,
    custom_pass,
    artifacts,          \* emitted artifacts, in emission order
    pc,                 \* position in main()
    exit_status,        \* process exit status, -1 while running
    exception,          \* unhandled exception that ended the run, or "none"
    data0,              \* history: the registry as loaded
    completed,          \* history: steps that ran to completion
    ran_after_fail      \* history: checks started with a failure on record

vars == <<args, data, file, error_rows, custom_test_rows, cleaned_data, ids,
          id_counts, rewrite_data, overall_pass, custom_pass, artifacts, pc,
          exit_status, exception, data0, completed, ran_after_fail>>

----------------------------------------------------------------------------
\* JSON values and parameters

JInt(n) == [type |-> "int", val |-> n]
JNull == [type |-> "null"]

\* isinstance(v, int)
IsInt(v) == v.type = "int"

\* Values stored under "id" in the registries explored.
IdValues == {JInt(3), JInt(ID_UNASSIGNED - 1), JInt(ID_UNASSIGNED), JNull}

\* An access matrix written by hand in the registry file.
CustomAccess == [dry |-> [read |-> TRUE, write |-> TRUE], wet |-> [read |-> TRUE]]

\* line 106: {"dry": {"read": True}, "wet": {"read": True}}
DefaultAccess_NoWet == [dry |-> [read |-> TRUE]]
DefaultAccess == [dry |-> [read |-> TRUE], wet |-> [read |-> TRUE]]

HasKey(p, k) == k \in DOMAIN p

\* param[k] = v (assignment into the dict)
SetKey(p, k, v) == [x \in DOMAIN p \cup {k} |-> IF x = k THEN v ELSE p[x]]

\* Parameters that can stand at position i of the registry file.
ParamsAt(i) ==
    LET base == [name |-> i, description |-> i]
        withId == {base} \cup {SetKey(base, "id", v) : v \in IdValues}
    IN  withId \cup {SetKey(p, "access", CustomAccess) : p \in withId}

RECURSIVE RegistriesOfLen(_)
RegistriesOfLen(n) ==
    IF n = 0 THEN {<<>>}
    ELSE {Append(r, p) : r \in RegistriesOfLen(n - 1), p \in ParamsAt(n)}

Registries == UNION {RegistriesOfLen(n) : n \in 0..MaxParams}

Range(s) == {s[i] : i \in DOMAIN s}

Max(S) == CHOOSE x \in S : \A y \in S : y <= x

----------------------------------------------------------------------------
\* Python expressions of main()

\* int(param['id']) succeeds
IntIdOk(p) == HasKey(p, "id") /\ IsInt(p.id)

\* int(param['id'])
IntId(p) == p.id.val

\* [int(param['id']) for param in d]
IdList(d) == [i \in DOMAIN d |-> IntId(d[i])]

\* any(row[1] == "FAIL" for row in rows)
AnyFail_LastRowOnly(rows) == rows # <<>> /\ rows[Len(rows)][2] = "FAIL"
AnyFail(rows) == \E i \in DOMAIN rows : rows[i][2] = "FAIL"

\* Counter(l)
Counter(l) == [v \in Range(l) |-> Cardinality({i \in DOMAIN l : l[i] = v})]

\* del counts[k]
Del(counts, k) == [v \in DOMAIN counts \ {k} |-> counts[v]]

\* Keys of Counter(l) in insertion order.
RECURSIVE KeyOrder(_)
KeyOrder(l) ==
    IF l = <<>> THEN <<>>
    ELSE LET front == KeyOrder(SubSeq(l, 1, Len(l) - 1))
             last == l[Len(l)]
         IN  IF last \in Range(front) THEN front ELSE Append(front, last)

\* lines 102-109: the per-parameter loop from index i on. A parameter without
\* "access" and without "id" raises KeyError while the message is formatted,
\* before the parameter is touched.
RECURSIVE PerParameterLoop(_, _, _, _, _)
PerParameterLoop(d, i, rows, rewrite, backfill) ==
    IF i > Len(d)
    THEN [data |-> d, rows |-> rows, rewrite |-> rewrite, raised |-> "none"]
    ELSE IF HasKey(d[i], "access")
    THEN PerParameterLoop(d, i + 1, rows, rewrite, backfill)
    ELSE IF ~HasKey(d[i], "id")
    THEN [data |-> d, rows |-> rows, rewrite |-> rewrite, raised |-> "KeyError"]
    ELSE IF backfill
    THEN PerParameterLoop([d EXCEPT ![i] = SetKey(d[i], "access", DefaultAccess)],
                          i + 1, rows, TRUE, backfill)
    ELSE PerParameterLoop(d, i + 1,
                          Append(rows, <<[test |-> "No access specified",
                                          id |-> d[i].id,
                                          description |-> d[i].description], "FAIL">>),
                          rewrite, backfill)

\* lines 121-125: one row per parameter with an invalid id
RECURSIVE InvalidIdRows(_, _)
InvalidIdRows(d, i) ==
    IF i > Len(d) THEN <<>>
    ELSE IF IntIdOk(d[i]) THEN InvalidIdRows(d, i + 1)
    ELSE <<<<[test |-> "Invalid ID in", name |-> d[i].name], "FAIL">>>>
         \o InvalidIdRows(d, i + 1)

\* lines 121-125: cleaned_data
CleanedData(d) == SelectSeq(d, IntIdOk)

\* line 132: max(id_counts.keys()) + 1
FirstNewId_NoIncrement(counts) == Max(DOMAIN counts)
FirstNewId(counts) == Max(DOMAIN counts) + 1

\* lines 135-138: the renumbering loop from index i on. param['id'] raises
\* KeyError on a parameter without "id".
RECURSIVE AutoNumberLoop(_, _, _)
AutoNumberLoop(d, i, last_id) ==
    IF i > Len(d) THEN [data |-> d, raised |-> "none"]
    ELSE IF ~HasKey(d[i], "id") THEN [data |-> d, raised |-> "KeyError"]
    ELSE IF d[i].id = JInt(ID_UNASSIGNED)
    THEN AutoNumberLoop([d EXCEPT ![i] = SetKey(d[i], "id", JInt(last_id))],
                        i + 1, last_id + 1)
    ELSE AutoNumberLoop(d, i + 1, last_id)

\* line 141: [id_ for id_, count in id_counts.items() if count > 1]
IdDuplicates_OverTwo(l, counts) ==
    SelectSeq(KeyOrder(l), LAMBDA v : v \in DOMAIN counts /\ counts[v] > 2)
IdDuplicates(l, counts) ==
    SelectSeq(KeyOrder(l), LAMBDA v : v \in DOMAIN counts /\ counts[v] > 1)

\* lines 142-143
DuplicateRows(dups) == [i \in DOMAIN dups |-> <<[test |-> "Duplicate ID", id |-> dups[i]], "FAIL">>]

\* line 147
DuplicatePassRow == <<[test |-> "Duplicate IDs"], "PASS">>

\* line 173: data.sort(key=lambda x: int(x['id'])), a stable sort
RECURSIVE Insert(_, _)
Insert(s, p) ==
    IF s = <<>> THEN <<p>>
    ELSE IF IntId(s[Len(s)]) <= IntId(p) THEN Append(s, p)
    ELSE Append(Insert(SubSeq(s, 1, Len(s) - 1), p), s[Len(s)])

RECURSIVE SortFrom(_, _, _)
SortFrom(d, i, acc) ==
    IF i > Len(d) THEN acc ELSE SortFrom(d, i + 1, Insert(acc, d[i]))

SortById_Unsorted(d) == d
SortById(d) == SortFrom(d, 1, <<>>)

----------------------------------------------------------------------------
\* The run

Init ==
    /\ args \in [immediate_exit : BOOLEAN,
                 rewrite_default_access : BOOLEAN,
                 rewrite_auto_number_id : BOOLEAN]
    /\ data \in Registries
    /\ file = data
    /\ data0 = data
    /\ error_rows = <<>>
    /\ custom_test_rows = <<>>
    /\ cleaned_data = <<>>
    /\ ids = <<>>
    /\ id_counts = <<>>
    /\ rewrite_data = FALSE
    /\ overall_pass = TRUE
    /\ custom_pass = TRUE
    /\ artifacts = <<>>
    /\ pc = "schema"
    /\ exit_status = -1
    /\ exception = "none"
    /\ completed = {}
    /\ ran_after_fail = {}

\* sys.exit(code)
Exit(code) == pc' = "exited" /\ exit_status' = code /\ exception' = "none"

\* an exception nobody catches: traceback, exit status 1
Raise(exc) == pc' = "exited" /\ exit_status' = 1 /\ exception' = exc

Goto(label) == pc' = label /\ UNCHANGED <<exit_status, exception>>

FailureOnRecord == error_rows # <<>> \/ AnyFail(custom_test_rows)

\* history bookkeeping at the start of the check called step
Note(step) ==
    ran_after_fail' = IF FailureOnRecord THEN ran_after_fail \cup {step}
                      ELSE ran_after_fail

\* lines 73-93
SchemaValidation ==
    /\ pc = "schema"
    /\ \E errors \in {<<>>, <<"violation">>} :
        /\ error_rows' = errors
        /\ IF errors # <<>> /\ args.immediate_exit
           THEN Exit(1) /\ UNCHANGED overall_pass
           ELSE Goto("per_parameter") /\ overall_pass' = (errors = <<>>)
    /\ completed' = completed \cup {"schema"}
    /\ UNCHANGED <<args, data, file, custom_test_rows, cleaned_data, ids, id_counts,
                   rewrite_data, custom_pass, artifacts, data0, ran_after_fail>>

\* lines 96-109
PerParameterTests ==
    /\ pc = "per_parameter"
    /\ LET r == PerParameterLoop(data, 1, <<>>, rewrite_data,
                                 args.rewrite_default_access)
       IN  /\ data' = r.data
           /\ custom_test_rows' = r.rows
           /\ rewrite_data' = r.rewrite
           /\ IF r.raised # "none"
              THEN Raise(r.raised) /\ UNCHANGED completed
              ELSE Goto("id_check") /\ completed' = completed \cup {"per_parameter"}
    /\ Note("per_parameter")
    /\ UNCHANGED <<args, file, error_rows, cleaned_data, ids, id_counts,
                   overall_pass, custom_pass, artifacts, data0>>

\* lines 113-127
IdTypeCheck ==
    /\ pc = "id_check"
    /\ IF \A i \in DOMAIN data : IntIdOk(data[i])
       THEN /\ ids' = IdList(data)
            /\ UNCHANGED <<custom_test_rows, cleaned_data, custom_pass>>
       ELSE /\ custom_test_rows' =
                   Append(custom_test_rows, <<[test |-> "Invalid ID in parameter"], "FAIL">>)
                   \o InvalidIdRows(data, 1)
            /\ cleaned_data' = CleanedData(data)
            /\ ids' = IdList(CleanedData(data))
            /\ custom_pass' = FALSE
    /\ Goto("auto_number")
    /\ Note("id_check")
    /\ completed' = completed \cup {"id_check"}
    /\ UNCHANGED <<args, data, file, error_rows, id_counts, rewrite_data,
                   overall_pass, artifacts, data0>>

\* lines 129-139
AutoNumber ==
    /\ pc = "auto_number"
    /\ IF args.rewrite_auto_number_id /\ ID_UNASSIGNED \in DOMAIN Counter(ids)
       THEN LET counts == Del(Counter(ids), ID_UNASSIGNED)
                r == AutoNumberLoop(data, 1, FirstNewId(counts))
            IN  /\ id_counts' = counts
                /\ IF DOMAIN counts = {}
                   THEN /\ Raise("ValueError")
                        /\ UNCHANGED <<data, rewrite_data, completed>>
                   ELSE /\ data' = r.data
                        /\ IF r.raised # "none"
                           THEN Raise(r.raised) /\ UNCHANGED <<rewrite_data, completed>>
                           ELSE /\ Goto("duplicates")
                                /\ rewrite_data' = TRUE
                                /\ completed' = completed \cup {"auto_number"}
       ELSE /\ id_counts' = Counter(ids)
            /\ Goto("duplicates")
            /\ UNCHANGED <<data, rewrite_data, completed>>
    /\ Note("auto_number")
    /\ UNCHANGED <<args, file, error_rows, custom_test_rows, cleaned_data, ids,
                   overall_pass, custom_pass, artifacts, data0>>

\* lines 141-147
DuplicateDetection ==
    /\ pc = "duplicates"
    /\ LET dups == IdDuplicates(ids, id_counts)
           failed == custom_test_rows \o DuplicateRows(dups)
           pass == custom_pass /\ dups = <<>>
       IN  /\ custom_pass' = pass
           /\ custom_test_rows' = IF pass THEN Append(failed, DuplicatePassRow) ELSE failed
    /\ Goto("custom_report")
    /\ Note("duplicates")
    /\ completed' = completed \cup {"duplicates"}
    /\ UNCHANGED <<args, data, file, error_rows, cleaned_data, ids, id_counts,
                   rewrite_data, overall_pass, artifacts, data0>>

\* lines 149-159
CustomReport ==
    /\ pc = "custom_report"
    /\ IF AnyFail(custom_test_rows)
       THEN IF args.immediate_exit
            THEN Exit(1) /\ UNCHANGED overall_pass
            ELSE Goto("summary") /\ overall_pass' = FALSE
       ELSE Goto("summary") /\ UNCHANGED overall_pass
    /\ completed' = completed \cup {"custom_report"}
    /\ UNCHANGED <<args, data, file, error_rows, custom_test_rows, cleaned_data, ids,
                   id_counts, rewrite_data, custom_pass, artifacts, data0,
                   ran_after_fail>>

\* lines 161-166: max(ids) raises ValueError on an empty list
Summary ==
    /\ pc = "summary"
    /\ IF overall_pass
       THEN /\ ids' = IdList(data)
            /\ IF data = <<>>
               THEN Raise("ValueError") /\ UNCHANGED completed
               ELSE Goto("persist") /\ completed' = completed \cup {"summary"}
       ELSE Exit(1) /\ UNCHANGED <<ids, completed>>
    /\ UNCHANGED <<args, data, file, error_rows, custom_test_rows, cleaned_data,
                   id_counts, rewrite_data, overall_pass, custom_pass, artifacts,
                   data0, ran_after_fail>>

\* lines 168-171
Persist ==
    /\ pc = "persist"
    /\ IF rewrite_data
       THEN file' = data /\ completed' = completed \cup {"persist"}
       ELSE UNCHANGED <<file, completed>>
    /\ Goto("sort")
    /\ UNCHANGED <<args, data, error_rows, custom_test_rows, cleaned_data, ids,
                   id_counts, rewrite_data, overall_pass, custom_pass, artifacts,
                   data0, ran_after_fail>>

\* line 173
Sort ==
    /\ pc = "sort"
    /\ data' = SortById(data)
    /\ Goto("proto")
    /\ completed' = completed \cup {"sort"}
    /\ UNCHANGED <<args, file, error_rows, custom_test_rows, cleaned_data, ids,
                   id_counts, rewrite_data, overall_pass, custom_pass, artifacts,
                   data0, ran_after_fail>>

\* What an emitter reads of the list it is handed.
Consumed(kind) == [kind |-> kind, list |-> data]

Emit(flag, kind) ==
    artifacts' = IF flag THEN Append(artifacts, Consumed(kind)) ELSE artifacts

\* lines 176-212
EmitProto ==
    /\ pc = "proto"
    /\ \E proto \in BOOLEAN : Emit(proto, "proto")
    /\ Goto("markdown_table")
    /\ UNCHANGED <<args, data, file, error_rows, custom_test_rows, cleaned_data, ids,
                   id_counts, rewrite_data, overall_pass, custom_pass, data0,
                   completed, ran_after_fail>>

\* lines 215-238
EmitTable ==
    /\ pc = "markdown_table"
    /\ \E markdown_table \in BOOLEAN : Emit(markdown_table, "table")
    /\ Goto("csv_file")
    /\ UNCHANGED <<args, data, file, error_rows, custom_test_rows, cleaned_data, ids,
                   id_counts, rewrite_data, overall_pass, custom_pass, data0,
                   completed, ran_after_fail>>

\* lines 240-282, then main() returns
EmitCsv ==
    /\ pc = "csv_file"
    /\ \E csv_file \in BOOLEAN : Emit(csv_file, "csv")
    /\ Exit(0)
    /\ UNCHANGED <<args, data, file, error_rows, custom_test_rows, cleaned_data, ids,
                   id_counts, rewrite_data, overall_pass, custom_pass, data0,
                   completed, ran_after_fail>>

Next ==
    \/ SchemaValidation
    \/ PerParameterTests
    \/ IdTypeCheck
    \/ AutoNumber
    \/ DuplicateDetection
    \/ CustomReport
    \/ Summary
    \/ Persist
    \/ Sort
    \/ EmitProto
    \/ EmitTable
    \/ EmitCsv

Spec == Init /\ [][Next]_vars

----------------------------------------------------------------------------
\* Vocabulary of the properties

\* The parameter of list d that was loaded at position n (names are positions).
ByName(d, n) == CHOOSE p \in Range(d) : p.name = n

Positions == DOMAIN data0

FailRows == {i \in DOMAIN custom_test_rows : custom_test_rows[i][2] = "FAIL"}

RowsOfTest(test) == {i \in DOMAIN custom_test_rows : custom_test_rows[i][1].test = test}

\* Positions whose loaded id is the sentinel.
Sentinels == {i \in Positions : HasKey(data0[i], "id") /\ data0[i].id = JInt(255)}

\* Integer ids of the loaded registry other than the sentinel.
UsedIds == {data0[i].id.val : i \in {j \in Positions \ Sentinels : IntIdOk(data0[j])}}

\* Positions whose loaded id is missing or not an integer.
InvalidIds == {i \in Positions : ~IntIdOk(data0[i])}

\* Positions loaded without an access field.
LackedAccess == {i \in Positions : ~HasKey(data0[i], "access")}

AutoNumbered == "auto_number" \in completed

Persisted == "persist" \in completed

\* Number of parameters of the registry in memory whose id is the integer v.
Occurrences(v) == Cardinality({i \in DOMAIN data : IntIdOk(data[i]) /\ data[i].id.val = v})

SameKey(p, q, k) == HasKey(p, k) = HasKey(q, k) /\ (HasKey(p, k) => p[k] = q[k])

----------------------------------------------------------------------------
\* C1: the registry file is rewritten and an artifact is emitted only when
\* there is no schema Violation and no FAIL row; a run with a Violation or a
\* FAIL row ends with a non-zero exit status, the file untouched and nothing
\* emitted, whatever was repaired in memory.
C1_WritesOnlyOnOverallPass ==
    /\ (Persisted \/ file # data0 \/ artifacts # <<>>)
          => error_rows = <<>> /\ FailRows = {}
    /\ (pc = "exited" /\ (error_rows # <<>> \/ FailRows # {}))
          => /\ exit_status > 0
             /\ file = data0
             /\ ~Persisted
             /\ artifacts = <<>>

\* An immediate-exit run that failed after repairing the registry in memory.
C1_Witness ==
    /\ pc = "exited"
    /\ args.immediate_exit
    /\ FailRows # {}
    /\ rewrite_data
    /\ data # data0
    /\ file = data0

\* C2: a run without Violation and without FAIL row ends with exit status 0,
\* the empty registry included.
C2_CleanRunExitsZero ==
    (/\ pc = "exited"
     /\ "custom_report" \in completed
     /\ error_rows = <<>>
     /\ FailRows = {})
        => exit_status = 0 /\ exception = "none"

\* C3: when auto-numbering has run, the parameters loaded with the sentinel
\* hold, in registry order, the consecutive values from (maximum non-sentinel
\* id) + 1 on; each new id exceeds every id in use before, no two are equal,
\* and every other parameter keeps its id.
C3_AutoNumbering ==
    AutoNumbered =>
        /\ args.rewrite_auto_number_id
        /\ Sentinels # {}
        /\ \A i \in Sentinels :
              /\ IsInt(ByName(data, i).id)
              /\ ByName(data, i).id.val
                    = Max(UsedIds) + 1 + Cardinality({j \in Sentinels : j < i})
              /\ \A v \in UsedIds : ByName(data, i).id.val > v
              /\ \A j \in Sentinels : j < i => ByName(data, j).id.val < ByName(data, i).id.val
        /\ \A i \in Positions \ Sentinels : SameKey(ByName(data, i), data0[i], "id")

\* Auto-numbering has resolved two sentinels.
C3_Witness == AutoNumbered /\ Cardinality(Sentinels) >= 2

\* C4: once duplicate detection has run there is one 'Duplicate ID v' FAIL row
\* for each value v held by more than one parameter of the repaired registry,
\* and no other; two sentinels are flagged when auto-numbering did not run,
\* and no resolved sentinel is flagged when it did.
C4_DuplicateRows ==
    "duplicates" \in completed =>
        LET dupRows == RowsOfTest("Duplicate ID")
            dupVals == {v \in {data[i].id.val : i \in {j \in DOMAIN data : IntIdOk(data[j])}} :
                           Occurrences(v) > 1}
        IN  /\ {custom_test_rows[i][1].id : i \in dupRows} = dupVals
            /\ Cardinality(dupRows) = Cardinality(dupVals)
            /\ dupRows \subseteq FailRows
            /\ (~AutoNumbered /\ Cardinality(Sentinels) >= 2) => 255 \in dupVals
            /\ AutoNumbered => \A i \in Sentinels : ByName(data, i).id.val \notin dupVals

\* A duplicate is reported next to sentinels that auto-numbering resolved.
C4_Witness ==
    /\ "duplicates" \in completed
    /\ AutoNumbered
    /\ RowsOfTest("Duplicate ID") # {}

C6_ImmediateExitAtFirstFailure ==
    args.immediate_exit => ran_after_fail = {}

\* C7: once auto-numbering has run no parameter holds the sentinel.
C7_NoSentinelAfterAutoNumbering ==
    AutoNumbered => \A i \in DOMAIN data : data[i].id # JInt(255)

\* C8: every emitter is handed the whole registry in strictly ascending order
\* of id, and the file persisted before the sort holds the parameters in the
\* order they were loaded.
C8_EmittersSeeSortedList ==
    /\ \A k \in DOMAIN artifacts :
          LET l == artifacts[k].list
          IN  /\ Len(l) = Len(data0)
              /\ \A i \in 1..(Len(l) - 1) : l[i].id.val < l[i + 1].id.val
    /\ Persisted =>
          /\ Len(file) = Len(data0)
          /\ \A i \in DOMAIN file : file[i].name = data0[i].name

\* An artifact was emitted from a renumbered registry that the sort reordered
\* after it was persisted.
C8_Witness ==
    /\ artifacts # <<>>
    /\ Persisted
    /\ AutoNumbered
    /\ data # file

\* C9: with auto-numbering enabled on a registry whose ids are all the
\* sentinel, the step ends without an error and the parameters hold 0, 1, 2,
\* ... in registry order.
C9_AllSentinelStartsAtZero ==
    (/\ args.rewrite_auto_number_id
     /\ Positions # {}
     /\ Sentinels = Positions
     /\ "id_check" \in completed
     /\ pc # "auto_number")
        => /\ exception = "none"
           /\ \A i \in Positions : ByName(data, i).id = JInt(i - 1)

\* C10: a registry with a missing or non-integer id never ends the run with
\* an unhandled exception; unless the schema check exited first, the run ends
\* after the custom test report with a failure status and a FAIL row for
\* each such parameter.
C10_InvalidIdNeverCrashes ==
    InvalidIds # {} =>
        /\ exception = "none"
        /\ (pc = "exited" /\ ~(args.immediate_exit /\ error_rows # <<>>))
              => /\ "custom_report" \in completed
                 /\ exit_status = 1
                 /\ \A i \in InvalidIds :
                       \E r \in RowsOfTest("Invalid ID in") \cap FailRows :
                           custom_test_rows[r][1].name = i

====
